---- MODULE Spec2Model ----
(***************************************************************************)
(* Model of the validator re-join scripts:                                 *)
(*   src/rejoin_validator_set.js  (CommonJS version, "cjs")                *)
(*   src/unnamed/part_000         (ES-module version, "esm")               *)
(* Text is a sequence of one-character strings.  JavaScript values are     *)
(* records [t, v]: t is the type tag, v the payload (always a sequence).   *)
(*                                                                         *)
(* version  "cjs" or "esm": which script runs                              *)
(* lib      major version of the installed ethers package (5 or 6); the    *)
(*          cjs script names both in its comments, the esm script v6 only  *)
(* pc       the await main is suspended at, or "done"                      *)
(* keyLine, argsLine, answerLine   the lines typed at the three prompts    *)
(* wallet   wallet.address; args, extracted   results of parseArgsData and *)
(*          extractDataFromArgs                                            *)
(* estCalls, estArgs, txCalls, txArgs, gasLimit   the estimateGas and      *)
(*          addValidator calls made and what was passed to them            *)
(* gasEstimate, usedFallback   the estimate in use and whether it is the   *)
(*          fallback of the inner catch                                    *)
(* printed  the console messages written so far; outcome   how main ended  *)
(* text, prefix, parsed   input and result of a direct parseArgsData call  *)
(*                                                                         *)
(* Specifications: Spec (a run of main), SpecFair (the same, every await   *)
(* eventually resuming), SpecParse and SpecTokens (parseArgsData called    *)
(* directly), SpecExtract (extractDataFromArgs called directly).           *)
(***************************************************************************)
EXTENDS Integers, Sequences, FiniteSets, TLC

VARIABLES version, lib, pc, keyLine, wallet, argsLine, args, extracted,
          answerLine, prompts, estCalls, estArgs, gasEstimate, usedFallback,
          txCalls, txArgs, gasLimit, printed, outcome,
          text, prefix, parsed

vars == <<version, lib, pc, keyLine, wallet, argsLine, args, extracted,
          answerLine, prompts, estCalls, estArgs, gasEstimate, usedFallback,
          txCalls, txArgs, gasLimit, printed, outcome,
          text, prefix, parsed>>

(***************************************************************************)
(* Bounds                                                                  *)
(***************************************************************************)
\* longest text placed between the outer delimiters in the parser runs
MaxInner == 3

(***************************************************************************)
(* String primitives (String.prototype.trim / startsWith / endsWith /      *)
(* substring / toLowerCase)                                                *)
(***************************************************************************)
WS == {" "}

Digit == {"0", "1", "2", "3", "4", "5", "6", "7", "8", "9"}

\* F applied to the value of e, with e evaluated once
Once(e, F(_)) == CHOOSE y \in {F(x) : x \in {e}} : TRUE

MinOf(S) == CHOOSE x \in S : \A y \in S : x <= y

MaxOf(S) == CHOOSE x \in S : \A y \in S : x >= y

Trim(s) ==
  LET idx == {i \in 1..Len(s) : s[i] \notin WS}
  IN  IF idx = {} THEN <<>> ELSE SubSeq(s, MinOf(idx), MaxOf(idx))

StartsWith(s, p) == Len(s) >= Len(p) /\ SubSeq(s, 1, Len(p)) = p

EndsWith(s, p) == Len(s) >= Len(p) /\ SubSeq(s, Len(s) - Len(p) + 1, Len(s)) = p

\* s.substring(n): the text from 0-based index n to the end
Substring(s, n) == SubSeq(s, n + 1, Len(s))

LowerChar(c) ==
  CASE c = "A" -> "a" [] c = "B" -> "b" [] c = "X" -> "x" [] c = "Y" -> "y"
    [] c = "N" -> "n" [] OTHER -> c

ToLowerCase(s) == [i \in 1..Len(s) |-> LowerChar(s[i])]

(***************************************************************************)
(* JavaScript values                                                       *)
(***************************************************************************)
JStr(s) == [t |-> "str", v |-> s]

JNum(s) == [t |-> "num", v |-> s]

JArr(s) == [t |-> "arr", v |-> s]

JObj(s) == [t |-> "obj", v |-> s]

JNull == [t |-> "null", v |-> <<>>]

JBool(b) == [t |-> "bool", v |-> IF b THEN <<"1">> ELSE <<>>]

JUndefined == [t |-> "undefined", v |-> <<>>]

\* ToBoolean
Truthy(x) ==
  CASE x.t = "undefined" -> FALSE
    [] x.t = "null" -> FALSE
    [] x.t = "bool" -> x.v # <<>>
    [] x.t = "str" -> x.v # <<>>
    [] x.t = "num" -> x.v # <<"0">> /\ x.v # <<"-", "0">>
    [] OTHER -> TRUE

\* typeof x === 'object'  (null and arrays included)
TypeofObject(x) == x.t \in {"obj", "arr", "null"}

\* a[i] with a 0-based index on a JavaScript array held as a sequence
At(a, i) == IF i + 1 <= Len(a) THEN a[i + 1] ELSE JUndefined

(***************************************************************************)
(* JSON.parse, by recursive descent.  A parse step returns                 *)
(* [ok, val, next]: next is the 1-based position after the value.          *)
(* Covered: objects, arrays, strings with two-character escapes, integer   *)
(* literals, null, true, false, blanks.  Fractions, exponents and \u       *)
(* escapes are rejected.                                                   *)
(***************************************************************************)
JFail == [ok |-> FALSE, val |-> JUndefined, next |-> 0]

JOk(v, n) == [ok |-> TRUE, val |-> v, next |-> n]

RECURSIVE SkipWs(_, _)
SkipWs(s, i) == IF i <= Len(s) /\ s[i] \in WS THEN SkipWs(s, i + 1) ELSE i

\* the two-character escapes of a JSON string and the character each denotes
JsonEscape ==
  [c \in {"\"", "\\", "/", "n", "t", "r", "f"} |->
     CASE c = "n" -> "\n" [] c = "t" -> "\t" [] c = "r" -> "\r" [] c = "f" -> "\f"
       [] OTHER -> c]

\* the characters of a string literal whose opening quote is before i
RECURSIVE JsonStringBody(_, _, _)
JsonStringBody(s, i, acc) ==
  IF i > Len(s) THEN JFail
  ELSE IF s[i] = "\"" THEN JOk(JStr(acc), i + 1)
  ELSE IF s[i] = "\\" THEN
         IF i + 1 <= Len(s) /\ s[i + 1] \in DOMAIN JsonEscape
           THEN JsonStringBody(s, i + 2, Append(acc, JsonEscape[s[i + 1]]))
           ELSE JFail
  ELSE JsonStringBody(s, i + 1, Append(acc, s[i]))

RECURSIVE DigitsEnd(_, _)
DigitsEnd(s, i) == IF i <= Len(s) /\ s[i] \in Digit THEN DigitsEnd(s, i + 1) ELSE i

\* integer literals: -?(0|[1-9][0-9]*)
JsonNumber(s, i) ==
  LET j == IF i <= Len(s) /\ s[i] = "-" THEN i + 1 ELSE i
      e == IF j <= Len(s) /\ s[j] = "0" THEN j + 1 ELSE DigitsEnd(s, j)
  IN  IF e = j THEN JFail ELSE JOk(JNum(SubSeq(s, i, e - 1)), e)

JsonLiteral(s, i, word, v) ==
  IF i + Len(word) - 1 <= Len(s) /\ SubSeq(s, i, i + Len(word) - 1) = word
    THEN JOk(v, i + Len(word)) ELSE JFail

\* object members keep the position of a key's first occurrence and the
\* value of its last one
SetMember(ms, k, v) ==
  IF \E n \in 1..Len(ms) : ms[n][1] = k
    THEN [n \in 1..Len(ms) |-> IF ms[n][1] = k THEN <<k, v>> ELSE ms[n]]
    ELSE Append(ms, <<k, v>>)

RECURSIVE JsonValue(_, _), JsonElements(_, _, _), JsonMembers(_, _, _)
JsonValue(s, i0) ==
  LET i == SkipWs(s, i0)
  IN  IF i > Len(s) THEN JFail
      ELSE IF s[i] = "\"" THEN JsonStringBody(s, i + 1, <<>>)
      ELSE IF s[i] = "[" THEN
             LET j == SkipWs(s, i + 1)
             IN  IF j <= Len(s) /\ s[j] = "]" THEN JOk(JArr(<<>>), j + 1)
                 ELSE JsonElements(s, j, <<>>)
      ELSE IF s[i] = "{" THEN
             LET j == SkipWs(s, i + 1)
             IN  IF j <= Len(s) /\ s[j] = "}" THEN JOk(JObj(<<>>), j + 1)
                 ELSE JsonMembers(s, j, <<>>)
      ELSE IF s[i] = "n" THEN JsonLiteral(s, i, <<"n", "u", "l", "l">>, JNull)
      ELSE IF s[i] = "t" THEN JsonLiteral(s, i, <<"t", "r", "u", "e">>, JBool(TRUE))
      ELSE IF s[i] = "f" THEN JsonLiteral(s, i, <<"f", "a", "l", "s", "e">>, JBool(FALSE))
      ELSE JsonNumber(s, i)

JsonElements(s, i, acc) ==
  Once(JsonValue(s, i), LAMBDA r :
    IF ~r.ok THEN JFail
    ELSE LET j == SkipWs(s, r.next)
         IN  IF j > Len(s) THEN JFail
             ELSE IF s[j] = "]" THEN JOk(JArr(Append(acc, r.val)), j + 1)
             ELSE IF s[j] = "," THEN JsonElements(s, j + 1, Append(acc, r.val))
             ELSE JFail)

JsonMembers(s, i0, acc) ==
  LET i == SkipWs(s, i0)
  IN  IF i > Len(s) \/ s[i] # "\"" THEN JFail
      ELSE Once(JsonStringBody(s, i + 1, <<>>), LAMBDA k :
             IF ~k.ok THEN JFail
             ELSE LET c == SkipWs(s, k.next)
                  IN  IF c > Len(s) \/ s[c] # ":" THEN JFail
                      ELSE Once(JsonValue(s, c + 1), LAMBDA r :
                             IF ~r.ok THEN JFail
                             ELSE Once(SetMember(acc, k.val.v, r.val), LAMBDA ms :
                                    LET j == SkipWs(s, r.next)
                                    IN  IF j > Len(s) THEN JFail
                                        ELSE IF s[j] = "}" THEN JOk(JObj(ms), j + 1)
                                        ELSE IF s[j] = "," THEN JsonMembers(s, j + 1, ms)
                                        ELSE JFail)))

\* JSON.parse(s): [ok, val]; ok = FALSE stands for the SyntaxError it throws
JSONParse(s) ==
  Once(JsonValue(s, 1), LAMBDA r :
    IF r.ok /\ SkipWs(s, r.next) = Len(s) + 1
      THEN [ok |-> TRUE, val |-> r.val]
      ELSE [ok |-> FALSE, val |-> JUndefined])

(***************************************************************************)
(* parseArgsData                                                           *)
(***************************************************************************)
ParseOk(v) == [ok |-> TRUE, err |-> "", val |-> v]

ParseErr(e) == [ok |-> FALSE, err |-> e, val |-> <<>>]

ArgsColon == <<"a", "r", "g", "s", ":">>

ArgsSpaceColon == <<"a", "r", "g", "s", " ", ":">>

\* cjs: argsInput.replace(/^args:\s*/, '').trim()
CleanInputCjs(argsInput) ==
  IF StartsWith(argsInput, ArgsColon)
    THEN Trim(SubSeq(argsInput, SkipWs(argsInput, Len(ArgsColon) + 1), Len(argsInput)))
    ELSE Trim(argsInput)

\* esm: trim, then substring(4) after 'args:' or substring(5) after 'args :'
CleanInputEsm(argsInput) ==
  LET c == Trim(argsInput)
  IN  IF StartsWith(c, ArgsColon) THEN Trim(Substring(c, 4))
      ELSE IF StartsWith(c, ArgsSpaceColon) THEN Trim(Substring(c, 5))
      ELSE c

CleanInput(ver, argsInput) ==
  IF ver = "cjs" THEN CleanInputCjs(argsInput) ELSE CleanInputEsm(argsInput)

\* the tokenizer's variables before the first character; cuts records the
\* positions of the commas at which a part was pushed
ScanInit ==
  [parts |-> <<>>, current |-> <<>>, depth |-> 0, braceDepth |-> 0,
   bracketDepth |-> 0, inString |-> FALSE, stringChar |-> "", cuts |-> {}]

Keep(st, c) == [st EXCEPT !.current = Append(st.current, c)]

\* one iteration of the cjs loop on character c at position i
StepCjs(s, i, st) ==
  LET c == s[i]
  IN  IF ~st.inString /\ c \in {"\"", "'"}
        THEN [Keep(st, c) EXCEPT !.inString = TRUE, !.stringChar = c]
      ELSE IF st.inString /\ c = st.stringChar
        THEN [Keep(st, c) EXCEPT !.inString = FALSE, !.stringChar = ""]
      ELSE IF ~st.inString /\ c = "{"
        THEN [Keep(st, c) EXCEPT !.braceDepth = st.braceDepth + 1]
      ELSE IF ~st.inString /\ c = "}"
        THEN [Keep(st, c) EXCEPT !.braceDepth = st.braceDepth - 1]
      ELSE IF ~st.inString /\ c = "("
        THEN [Keep(st, c) EXCEPT !.depth = st.depth + 1]
      ELSE IF ~st.inString /\ c = ")"
        THEN [Keep(st, c) EXCEPT !.depth = st.depth - 1]
      ELSE IF ~st.inString /\ c = "," /\ st.depth = 0 /\ st.braceDepth = 0
        THEN [st EXCEPT !.parts = Append(st.parts, Trim(st.current)),
                        !.current = <<>>, !.cuts = st.cuts \cup {i}]
      ELSE Keep(st, c)

\* one iteration of the esm loop on character c at position i
StepEsm(s, i, st) ==
  LET c == s[i]
  IN  IF st.inString
        THEN IF c = st.stringChar /\ ~(i > 1 /\ s[i - 1] = "\\")
               THEN [Keep(st, c) EXCEPT !.inString = FALSE, !.stringChar = ""]
               ELSE Keep(st, c)
      ELSE IF c \in {"\"", "'"}
        THEN [Keep(st, c) EXCEPT !.inString = TRUE, !.stringChar = c]
      ELSE IF c = "("
        THEN [Keep(st, c) EXCEPT !.depth = st.depth + 1]
      ELSE IF c = ")"
        THEN [Keep(st, c) EXCEPT !.depth = st.depth - 1]
      ELSE IF c = "{"
        THEN [Keep(st, c) EXCEPT !.braceDepth = st.braceDepth + 1]
      ELSE IF c = "}"
        THEN [Keep(st, c) EXCEPT !.braceDepth = st.braceDepth - 1]
      ELSE IF c = "["
        THEN [Keep(st, c) EXCEPT !.bracketDepth = st.bracketDepth + 1]
      ELSE IF c = "]"
        THEN [Keep(st, c) EXCEPT !.bracketDepth = st.bracketDepth - 1]
      ELSE IF c = "," /\ st.depth = 0 /\ st.braceDepth = 0 /\ st.bracketDepth = 0
        THEN [st EXCEPT !.parts = Append(st.parts, Trim(st.current)),
                        !.current = <<>>, !.cuts = st.cuts \cup {i}]
      ELSE Keep(st, c)

RECURSIVE Scan(_, _, _, _)
Scan(ver, s, i, st) ==
  IF i > Len(s) THEN st
  ELSE Once(IF ver = "cjs" THEN StepCjs(s, i, st) ELSE StepEsm(s, i, st),
            LAMBDA n : Scan(ver, s, i + 1, n))

\* the loop, then the push of the last part when it is not blank
SplitParts(ver, s) ==
  LET st == Scan(ver, s, 1, ScanInit)
  IN  IF Trim(st.current) # <<>>
        THEN [st EXCEPT !.parts = Append(st.parts, Trim(st.current))]
        ELSE st

\* Delimited with the test of the last character left out
DelimitedByStart(p, open, close) == StartsWith(p, <<open>>)

Delimited(p, open, close) == StartsWith(p, <<open>>) /\ EndsWith(p, <<close>>)

\* the callback of parts.map in the cjs version
CoerceCjs(part0) ==
  LET part == Trim(part0)
  IN  IF Delimited(part, "{", "}") \/ Delimited(part, "[", "]")
        THEN Once(JSONParse(part), LAMBDA j : IF j.ok THEN j.val ELSE JStr(part))
        ELSE JStr(part)

\* the callback of parts.map in the esm version
CoerceEsm(part0) ==
  LET part == Trim(part0)
  IN  IF part = <<>> THEN JNull
      ELSE IF Delimited(part, "{", "}") \/ Delimited(part, "[", "]")
        THEN Once(JSONParse(part), LAMBDA j : IF j.ok THEN j.val ELSE JStr(part))
        ELSE JStr(part)

Coerce(ver, part) == IF ver = "cjs" THEN CoerceCjs(part) ELSE CoerceEsm(part)

\* the text the tokenizer runs on: cjs slice(1, -1); esm substring(1, length - 1).trim()
TupleInner(ver, clean) ==
  LET inner == SubSeq(clean, 2, Len(clean) - 1)
  IN  IF ver = "cjs" THEN inner ELSE Trim(inner)

TupleParse(ver, clean) ==
  Once(SplitParts(ver, TupleInner(ver, clean)).parts,
       LAMBDA parts : [n \in 1..Len(parts) |-> Coerce(ver, parts[n])])

parseArgsData(ver, argsInput) ==
  IF ver = "esm" /\ argsInput = <<>> THEN ParseErr("NoInput")
  ELSE
    Once(CleanInput(ver, argsInput), LAMBDA clean :
      IF Delimited(clean, "[", "]")
        THEN Once(JSONParse(clean), LAMBDA j :
               IF j.ok THEN ParseOk(j.val.v)
               ELSE IF ver = "cjs" THEN ParseErr("SyntaxError")
               ELSE ParseErr("InvalidFormat"))
      ELSE IF Delimited(clean, "(", ")") THEN ParseOk(TupleParse(ver, clean))
      ELSE ParseErr("InvalidFormat"))

(***************************************************************************)
(* Parser runs: parseArgsData applied to every text of the form            *)
(* prefix . open . inner . close, inner of at most MaxInner characters.    *)
(***************************************************************************)
Chars == {"(", ")", "{", "}", "[", "]", ",", "'", "\"", "\\", "a", " ", "1"}

RECURSIVE TextsUpTo(_)
TextsUpTo(n) ==
  IF n = 0 THEN {<<>>}
  ELSE LET shorter == TextsUpTo(n - 1)
       IN  shorter \cup {Append(t, c) : t \in {u \in shorter : Len(u) = n - 1}, c \in Chars}

Wrappers == {<<"(", ")">>, <<"[", "]">>, <<>>}

Wrap(w, inner) == IF w = <<>> THEN inner ELSE <<w[1]>> \o inner \o <<w[2]>>

Prefixes == {<<>>, ArgsColon, Append(ArgsColon, " "), ArgsSpaceColon}

NotParsed == [ok |-> FALSE, err |-> "NotParsed", val |-> <<>>]

Idle ==
  /\ lib = 6 /\ keyLine = <<>> /\ wallet = <<>> /\ argsLine = <<>> /\ args = <<>>
  /\ extracted = <<>> /\ answerLine = <<>> /\ prompts = 0 /\ estCalls = 0
  /\ estArgs = <<>> /\ gasEstimate = 0 /\ usedFallback = FALSE /\ txCalls = 0
  /\ txArgs = <<>> /\ gasLimit = 0 /\ printed = {} /\ outcome = "none"

InitParse ==
  /\ version \in {"cjs", "esm"}
  /\ pc = "text"
  /\ text \in {Wrap(w, inner) : w \in Wrappers, inner \in TextsUpTo(MaxInner)}
  /\ prefix = <<>>
  /\ parsed = NotParsed
  /\ Idle

\* a call parseArgsData(prefix + text)
ParseText ==
  /\ pc = "text"
  /\ \E p \in Prefixes :
       /\ prefix' = p
       /\ parsed' = parseArgsData(version, p \o text)
  /\ pc' = "parsed"
  /\ UNCHANGED <<version, lib, keyLine, wallet, argsLine, args, extracted,
                 answerLine, prompts, estCalls, estArgs, gasEstimate, usedFallback,
                 txCalls, txArgs, gasLimit, printed, outcome, text>>

NextParse == ParseText

SpecParse == InitParse /\ [][NextParse]_vars

(***************************************************************************)
(* Tokenizer runs: parseArgsData applied to every tuple ( inner ) whose    *)
(* inner text has at most MaxTokens characters of quotes, backslashes,     *)
(* commas, brackets and letters.                                           *)
(***************************************************************************)
\* longest text placed between the parentheses in the tokenizer runs
MaxTokens == 5

TokenChars == {"'", "\"", "\\", ",", "[", "a"}

RECURSIVE TokenTexts(_)
TokenTexts(n) ==
  IF n = 0 THEN {<<>>}
  ELSE LET shorter == TokenTexts(n - 1)
       IN  shorter \cup {Append(t, c) : t \in {u \in shorter : Len(u) = n - 1},
                                        c \in TokenChars}

InitTokens ==
  /\ version \in {"cjs", "esm"}
  /\ pc = "text"
  /\ text \in {Wrap(<<"(", ")">>, inner) : inner \in TokenTexts(MaxTokens)}
  /\ prefix = <<>>
  /\ parsed = NotParsed
  /\ Idle

\* a call parseArgsData(text)
TokenizeText ==
  /\ pc = "text"
  /\ parsed' = parseArgsData(version, text)
  /\ pc' = "parsed"
  /\ UNCHANGED <<version, lib, keyLine, wallet, argsLine, args, extracted,
                 answerLine, prompts, estCalls, estArgs, gasEstimate, usedFallback,
                 txCalls, txArgs, gasLimit, printed, outcome, text, prefix>>

NextTokens == TokenizeText

SpecTokens == InitTokens /\ [][NextTokens]_vars

(***************************************************************************)
(* ethers, as far as the scripts use it                                    *)
(***************************************************************************)
\* new ethers.Wallet(privateKey): the address of the key, or a throw
Wallet(privateKey) ==
  CASE privateKey = <<"k">> -> [ok |-> TRUE, address |-> <<"0", "x", "A">>]
    [] privateKey = <<"j">> -> [ok |-> TRUE, address |-> <<"0", "x", "B">>]
    [] OTHER -> [ok |-> FALSE, address |-> <<>>]

\* ethers.isAddress
isAddress(s) ==
  s \in {<<"0", "x", "A">>, <<"0", "x", "a">>, <<"0", "x", "B">>, <<"0", "x", "b">>}

\* contract.addValidator.estimateGas exists in ethers v6 only; in v5 the
\* call expression throws a TypeError, which the inner catch receives
EstimateGasAvailable == lib = 6

\* ethers.BigNumber (from, mul, div) exists in ethers v5 only
BigNumberAvailable == lib = 5

FallbackGas == 2000000

\* GasLimitWithBuffer with the division done before the multiplication
GasLimitDividedFirst(gasEst) == (gasEst \div 100) * 120

\* cjs gasEstimate.mul(120).div(100); esm gasEstimate * 120n / 100n
GasLimitWithBuffer(gasEst) == (gasEst * 120) \div 100

(***************************************************************************)
(* extractDataFromArgs                                                     *)
(***************************************************************************)
Extracted(a, m, z, g1, g2, sg) ==
  [ok |-> TRUE, err |-> "", attester |-> a, merkleProof |-> m, zkPassportData |-> z,
   publicKeyG1 |-> g1, publicKeyG2 |-> g2, signature |-> sg]

ExtractErr(e) ==
  [ok |-> FALSE, err |-> e, attester |-> JUndefined, merkleProof |-> JUndefined,
   zkPassportData |-> JUndefined, publicKeyG1 |-> JUndefined,
   publicKeyG2 |-> JUndefined, signature |-> JUndefined]

NoExtract == ExtractErr("NotExtracted")

\* args[1] || []
MerkleProofOf(a) == IF Truthy(At(a, 1)) THEN At(a, 1) ELSE JArr(<<>>)

\* args[2], JSON-decoded when it is a string that decodes
ZkPassportOf(a) ==
  LET raw == At(a, 2)
  IN  IF raw.t = "str"
        THEN Once(JSONParse(raw.v), LAMBDA j : IF j.ok THEN j.val ELSE raw)
        ELSE raw

ValidObject(z) == Truthy(z) /\ TypeofObject(z)

extractDataFromArgsCjs(a) ==
  IF At(a, 2).t = "undefined" THEN ExtractErr("TypeError")
  ELSE IF ~ValidObject(ZkPassportOf(a)) THEN ExtractErr("NotAnObject")
  ELSE Extracted(At(a, 0), MerkleProofOf(a), ZkPassportOf(a), At(a, 3), At(a, 4), At(a, 5))

\* extractDataFromArgsEsm without the check of the three BLS values
extractDataFromArgsEsmWithoutBls(a) ==
  IF Len(a) < 6 THEN ExtractErr("TooFewArguments")
  ELSE IF At(a, 0).t # "str" \/ ~isAddress(At(a, 0).v) THEN ExtractErr("InvalidAttester")
  ELSE IF MerkleProofOf(a).t # "arr" THEN ExtractErr("ProofNotArray")
  ELSE IF ~ValidObject(ZkPassportOf(a)) THEN ExtractErr("NotAnObject")
  ELSE Extracted(At(a, 0), MerkleProofOf(a), ZkPassportOf(a), At(a, 3), At(a, 4), At(a, 5))

extractDataFromArgsEsm(a) ==
  IF Len(a) < 6 THEN ExtractErr("TooFewArguments")
  ELSE IF At(a, 0).t # "str" \/ ~isAddress(At(a, 0).v) THEN ExtractErr("InvalidAttester")
  ELSE IF MerkleProofOf(a).t # "arr" THEN ExtractErr("ProofNotArray")
  ELSE IF ~ValidObject(ZkPassportOf(a)) THEN ExtractErr("NotAnObject")
  ELSE IF ~Truthy(At(a, 3)) \/ ~Truthy(At(a, 4)) \/ ~Truthy(At(a, 5))
    THEN ExtractErr("MissingBLS")
  ELSE Extracted(At(a, 0), MerkleProofOf(a), ZkPassportOf(a), At(a, 3), At(a, 4), At(a, 5))

extractDataFromArgs(ver, a) ==
  IF ver = "cjs" THEN extractDataFromArgsCjs(a) ELSE extractDataFromArgsEsm(a)

\* SixArgs with the two public keys in each other's place
SixArgsKeysSwapped(e) ==
  <<e.attester, e.merkleProof, e.zkPassportData, e.publicKeyG2, e.publicKeyG1, e.signature>>

\* the six values handed to estimateGas and to addValidator, in call order
SixArgs(e) ==
  <<e.attester, e.merkleProof, e.zkPassportData, e.publicKeyG1, e.publicKeyG2, e.signature>>

(***************************************************************************)
(* Extraction runs: extractDataFromArgs applied to every argument list of  *)
(* at most MaxArgs values.                                                 *)
(***************************************************************************)
\* longest argument list handed to extractDataFromArgs
MaxArgs == 7

\* values tried as args[0], args[1] and args[2]
HeadValues ==
  { JStr(<<"0", "x", "A">>), JStr(<<"{", "}">>), JStr(<<"n", "u", "l", "l">>),
    JNull, JNum(<<"1">>), JArr(<<>>), JObj(<<>>) }

\* values tried as args[3], args[4] and args[5]
TailValues == {JNull, JStr(<<"1">>), JStr(<<"2">>)}

\* values tried past args[5], which extractDataFromArgs never reads
ExtraValues == {JNull}

RECURSIVE ArgLists(_)
ArgLists(n) ==
  IF n = 0 THEN {<<>>}
  ELSE {Append(a, v) : a \in ArgLists(n - 1),
                       v \in IF n <= 3 THEN HeadValues
                            ELSE IF n <= 6 THEN TailValues ELSE ExtraValues}

InitExtract ==
  /\ version \in {"cjs", "esm"}
  /\ pc = "args"
  /\ args \in UNION {ArgLists(n) : n \in 0..MaxArgs}
  /\ extracted = NoExtract
  /\ lib = 6 /\ keyLine = <<>> /\ wallet = <<>> /\ argsLine = <<>>
  /\ answerLine = <<>> /\ prompts = 0 /\ estCalls = 0 /\ estArgs = <<>>
  /\ gasEstimate = 0 /\ usedFallback = FALSE /\ txCalls = 0 /\ txArgs = <<>>
  /\ gasLimit = 0 /\ printed = {} /\ outcome = "none"
  /\ text = <<>> /\ prefix = <<>> /\ parsed = NotParsed

\* a call extractDataFromArgs(args)
ExtractArgs ==
  /\ pc = "args"
  /\ extracted' = extractDataFromArgs(version, args)
  /\ pc' = "extracted"
  /\ UNCHANGED <<version, lib, keyLine, wallet, argsLine, args, answerLine, prompts,
                 estCalls, estArgs, gasEstimate, usedFallback, txCalls, txArgs,
                 gasLimit, printed, outcome, text, prefix, parsed>>

NextExtract == ExtractArgs

SpecExtract == InitExtract /\ [][NextExtract]_vars

(***************************************************************************)
(* main and callAddValidator: one action per continuation between awaits   *)
(***************************************************************************)
\* largest gas estimate the RPC node answers with, besides 21000
MaxGas == 6

GasEstimates == (0..MaxGas) \cup {21000}

\* lines typed at the private-key prompt
KeyLines == {<<>>, <<" ">>, <<"k">>, <<" ", "k", " ">>, <<"j">>, <<"z">>}

\* lines typed at the mismatch prompt
AnswerLines == {<<>>, <<"y">>, <<"Y">>, <<" ", "y">>, <<"n">>, <<"N">>, <<"y", "y">>}

\* lines pasted at the args prompt:
\*   ["0xA",[],{},{},{},{}]           JSON array, all six arguments
\*   args: ["0xA",[],{},{},{},{}]     the same with the args: prefix
\*   (0xA,[],{},{},{},{})             tuple, all six arguments
\*   (0xa,[],{"a":1},1,1,1)           tuple, attester in lower case
\*   (0xB,[],{},{},{},{})             tuple, attester of another wallet
\*   ["0xA",[],{}]                    only three arguments
\*   ["0xA",null,{},1,1,1]            args[1] null
\*   ["0xA",1,{},1,1,1]               args[1] a number
\*   ["0xA",[],"{}",1,1,1]            args[2] an object encoded as a string
\*   ["0xA",[],1,1,1,1]               args[2] a number
\*   [1,[],{},1,1,1]                  args[0] a number
\*   ["zz",[],{},1,1,1]               args[0] not an address
\*   ["0xA",[],{},1,0,1]              args[4] zero
\*   ["0xA",[],{},1,2,3]              three different BLS values
\*   [1,                              not JSON
\*   abc                              neither delimiter pair
\*   (empty)                          empty line
ArgsLines ==
  { <<"[", "\"", "0", "x", "A", "\"", ",", "[", "]", ",", "{", "}", ",", "{", "}", ",", "{", "}", ",", "{", "}", "]">>,
    <<"a", "r", "g", "s", ":", " ", "[", "\"", "0", "x", "A", "\"", ",", "[", "]", ",", "{", "}", ",", "{", "}", ",", "{", "}", ",", "{", "}", "]">>,
    <<"(", "0", "x", "A", ",", "[", "]", ",", "{", "}", ",", "{", "}", ",", "{", "}", ",", "{", "}", ")">>,
    <<"(", "0", "x", "a", ",", "[", "]", ",", "{", "\"", "a", "\"", ":", "1", "}", ",", "1", ",", "1", ",", "1", ")">>,
    <<"(", "0", "x", "B", ",", "[", "]", ",", "{", "}", ",", "{", "}", ",", "{", "}", ",", "{", "}", ")">>,
    <<"[", "\"", "0", "x", "A", "\"", ",", "[", "]", ",", "{", "}", "]">>,
    <<"[", "\"", "0", "x", "A", "\"", ",", "n", "u", "l", "l", ",", "{", "}", ",", "1", ",", "1", ",", "1", "]">>,
    <<"[", "\"", "0", "x", "A", "\"", ",", "1", ",", "{", "}", ",", "1", ",", "1", ",", "1", "]">>,
    <<"[", "\"", "0", "x", "A", "\"", ",", "[", "]", ",", "\"", "{", "}", "\"", ",", "1", ",", "1", ",", "1", "]">>,
    <<"[", "\"", "0", "x", "A", "\"", ",", "[", "]", ",", "1", ",", "1", ",", "1", ",", "1", "]">>,
    <<"[", "1", ",", "[", "]", ",", "{", "}", ",", "1", ",", "1", ",", "1", "]">>,
    <<"[", "\"", "z", "z", "\"", ",", "[", "]", ",", "{", "}", ",", "1", ",", "1", ",", "1", "]">>,
    <<"[", "\"", "0", "x", "A", "\"", ",", "[", "]", ",", "{", "}", ",", "1", ",", "0", ",", "1", "]">>,
    <<"[", "\"", "0", "x", "A", "\"", ",", "[", "]", ",", "{", "}", ",", "1", ",", "2", ",", "3", "]">>,
    <<"[", "1", ",">>,
    <<"a", "b", "c">>,
    <<>> }

InitMain ==
  /\ version \in {"cjs", "esm"}
  /\ lib \in IF version = "cjs" THEN {5, 6} ELSE {6}
  /\ pc = "askKey"
  /\ keyLine = <<>> /\ wallet = <<>> /\ argsLine = <<>> /\ args = <<>>
  /\ extracted = NoExtract /\ answerLine = <<>> /\ prompts = 0
  /\ estCalls = 0 /\ estArgs = <<>> /\ gasEstimate = 0 /\ usedFallback = FALSE
  /\ txCalls = 0 /\ txArgs = <<>> /\ gasLimit = 0
  /\ printed = {} /\ outcome = "running"
  /\ text = <<>> /\ prefix = <<>> /\ parsed = NotParsed

\* Stop with main left suspended instead of returning
StopWithoutReturning(out, pr) ==
  /\ pc' = "suspended"
  /\ outcome' = out
  /\ printed' = printed \cup pr

\* main returns after printing pr
Stop(out, pr) ==
  /\ pc' = "done"
  /\ outcome' = out
  /\ printed' = printed \cup pr

\* MainCatch rethrowing instead of printing
MainCatchRethrows == [outcome |-> "rejected", printed |-> {}]

\* the catch block of main: what it prints and how main settles
MainCatch == [outcome |-> "failure", printed |-> {"Failed", "ErrorText", "Hints"}]

\* an error thrown inside main's try, after pr was printed
Fail(pr) == Stop(MainCatch.outcome, pr \cup MainCatch.printed)

\* the catch block of callAddValidator logs and rethrows
CallFail(pr) == Fail(pr \cup {"ErrorCalling"})

\* BeginCall with the estimate asked for a second time
BeginCallEstimatingTwice(e, pr) ==
  /\ pc' = "estimating"
  /\ estCalls' = estCalls + 2
  /\ estArgs' = SixArgs(e)
  /\ printed' = printed \cup pr \cup {"Calling", "Estimating"}
  /\ UNCHANGED <<outcome, prompts>>

\* entry of callAddValidator up to the awaited estimateGas call
BeginCall(e, pr) ==
  /\ pc' = "estimating"
  /\ estCalls' = estCalls + 1
  /\ estArgs' = SixArgs(e)
  /\ printed' = printed \cup pr \cup {"Calling", "Estimating"}
  /\ UNCHANGED <<outcome, prompts>>

\* continuation of main after the private-key prompt
AnswerKey ==
  /\ pc = "askKey"
  /\ \E line \in KeyLines :
       LET privateKey == Trim(line)
           w == Wallet(privateKey)
       IN  /\ keyLine' = line
           /\ IF privateKey = <<>> THEN Stop("noKey", {"NoKey"}) /\ UNCHANGED wallet
              ELSE IF ~w.ok THEN Fail({}) /\ UNCHANGED wallet
              ELSE /\ wallet' = w.address
                   /\ pc' = "askArgs"
                   /\ printed' = printed \cup {"WalletCreated"}
                   /\ UNCHANGED outcome
  /\ UNCHANGED <<version, lib, argsLine, args, extracted, answerLine, prompts,
                 estCalls, estArgs, gasEstimate, usedFallback, txCalls, txArgs,
                 gasLimit, text, prefix, parsed>>

\* continuation of main after the args prompt: parse, extract, compare the
\* addresses, and either prompt again or enter callAddValidator
AnswerArgs ==
  /\ pc = "askArgs"
  /\ \E line \in ArgsLines :
     \E argsInput \in {Trim(line)} :
     \E r \in {parseArgsData(version, argsInput)} :
     \E e \in {extractDataFromArgs(version, r.val)} :
           /\ argsLine' = line
           /\ IF version = "cjs" /\ argsInput = <<>>
                THEN /\ Stop("noArgs", {"NoArgs"})
                     /\ UNCHANGED <<args, extracted, prompts, estCalls, estArgs>>
              ELSE IF ~r.ok
                THEN /\ Fail({})
                     /\ UNCHANGED <<args, extracted, prompts, estCalls, estArgs>>
              ELSE IF ~e.ok
                THEN /\ Fail({})
                     /\ args' = r.val
                     /\ UNCHANGED <<extracted, prompts, estCalls, estArgs>>
              ELSE IF e.attester.t # "str"
                THEN /\ Fail({"Extracted"})
                     /\ args' = r.val /\ extracted' = e
                     /\ UNCHANGED <<prompts, estCalls, estArgs>>
              ELSE IF ToLowerCase(wallet) # ToLowerCase(e.attester.v)
                THEN /\ pc' = "askProceed"
                     /\ prompts' = prompts + 1
                     /\ printed' = printed \cup {"Extracted", "Mismatch"}
                     /\ args' = r.val /\ extracted' = e
                     /\ UNCHANGED <<outcome, estCalls, estArgs>>
              ELSE /\ BeginCall(e, {"Extracted"})
                   /\ args' = r.val /\ extracted' = e
  /\ UNCHANGED <<version, lib, keyLine, wallet, answerLine, gasEstimate,
                 usedFallback, txCalls, txArgs, gasLimit, text, prefix, parsed>>

\* AnswerProceed cancelling on an explicit 'n' only
AnswerProceedUnlessNo ==
  /\ pc = "askProceed"
  /\ \E line \in AnswerLines :
       LET proceed == Trim(line)
       IN  /\ answerLine' = line
           /\ IF ToLowerCase(proceed) = <<"n">>
                THEN Stop("cancelled", {"Cancelled"}) /\ UNCHANGED <<prompts, estCalls, estArgs>>
                ELSE BeginCall(extracted, {})
  /\ UNCHANGED <<version, lib, keyLine, wallet, argsLine, args, extracted,
                 gasEstimate, usedFallback, txCalls, txArgs, gasLimit,
                 text, prefix, parsed>>

\* continuation of main after the mismatch prompt
AnswerProceed ==
  /\ pc = "askProceed"
  /\ \E line \in AnswerLines :
       LET proceed == Trim(line)
       IN  /\ answerLine' = line
           /\ IF ToLowerCase(proceed) # <<"y">>
                THEN Stop("cancelled", {"Cancelled"}) /\ UNCHANGED <<prompts, estCalls, estArgs>>
                ELSE BeginCall(extracted, {})
  /\ UNCHANGED <<version, lib, keyLine, wallet, argsLine, args, extracted,
                 gasEstimate, usedFallback, txCalls, txArgs, gasLimit,
                 text, prefix, parsed>>

\* callAddValidator from the gas estimate gasEst to the awaited addValidator call
Send(gasEst, pr) ==
  /\ pc' = "sending"
  /\ txCalls' = txCalls + 1
  /\ txArgs' = SixArgs(extracted)
  /\ gasLimit' = GasLimitWithBuffer(gasEst)
  /\ printed' = printed \cup pr \cup {"Sending"}
  /\ UNCHANGED outcome

\* estimateGas resolved with g
EstimateResolves ==
  /\ pc = "estimating"
  /\ EstimateGasAvailable
  /\ \E g \in GasEstimates :
       /\ gasEstimate' = g
       /\ usedFallback' = FALSE
       /\ IF version = "cjs" /\ ~BigNumberAvailable
            THEN CallFail({"GasEstimate"}) /\ UNCHANGED <<txCalls, txArgs, gasLimit>>
            ELSE Send(g, {"GasEstimate"})
  /\ UNCHANGED <<version, lib, keyLine, wallet, argsLine, args, extracted,
                 answerLine, prompts, estCalls, estArgs, text, prefix, parsed>>

\* estimateGas rejected or threw: the inner catch of callAddValidator
EstimateRejects ==
  /\ pc = "estimating"
  /\ IF version = "cjs" /\ ~BigNumberAvailable
       THEN /\ CallFail({"GasEstimationFailed"})
            /\ UNCHANGED <<gasEstimate, usedFallback, txCalls, txArgs, gasLimit>>
       ELSE /\ gasEstimate' = FallbackGas
            /\ usedFallback' = TRUE
            /\ Send(FallbackGas, {"GasEstimationFailed"})
  /\ UNCHANGED <<version, lib, keyLine, wallet, argsLine, args, extracted,
                 answerLine, prompts, estCalls, estArgs, text, prefix, parsed>>

\* SendResolves announcing success before the confirmation
SendResolvesAnnouncing ==
  /\ pc = "sending"
  /\ pc' = "waiting"
  /\ printed' = printed \cup {"TxHash", "Waiting", "Success"}
  /\ UNCHANGED <<version, lib, keyLine, wallet, argsLine, args, extracted,
                 answerLine, prompts, estCalls, estArgs, gasEstimate, usedFallback,
                 txCalls, txArgs, gasLimit, outcome, text, prefix, parsed>>

\* addValidator resolved with the transaction response
SendResolves ==
  /\ pc = "sending"
  /\ pc' = "waiting"
  /\ printed' = printed \cup {"TxHash", "Waiting"}
  /\ UNCHANGED <<version, lib, keyLine, wallet, argsLine, args, extracted,
                 answerLine, prompts, estCalls, estArgs, gasEstimate, usedFallback,
                 txCalls, txArgs, gasLimit, outcome, text, prefix, parsed>>

\* addValidator rejected
SendRejects ==
  /\ pc = "sending"
  /\ CallFail({})
  /\ UNCHANGED <<version, lib, keyLine, wallet, argsLine, args, extracted,
                 answerLine, prompts, estCalls, estArgs, gasEstimate, usedFallback,
                 txCalls, txArgs, gasLimit, text, prefix, parsed>>

\* tx.wait resolved with the receipt; callAddValidator returns it to main
WaitResolves ==
  /\ pc = "waiting"
  /\ Stop("success", {"Confirmed", "Success"})
  /\ UNCHANGED <<version, lib, keyLine, wallet, argsLine, args, extracted,
                 answerLine, prompts, estCalls, estArgs, gasEstimate, usedFallback,
                 txCalls, txArgs, gasLimit, text, prefix, parsed>>

\* tx.wait rejected
WaitRejects ==
  /\ pc = "waiting"
  /\ CallFail({})
  /\ UNCHANGED <<version, lib, keyLine, wallet, argsLine, args, extracted,
                 answerLine, prompts, estCalls, estArgs, gasEstimate, usedFallback,
                 txCalls, txArgs, gasLimit, text, prefix, parsed>>

Next ==
  \/ AnswerKey
  \/ AnswerArgs
  \/ AnswerProceed
  \/ EstimateResolves
  \/ EstimateRejects
  \/ SendResolves
  \/ SendRejects
  \/ WaitResolves
  \/ WaitRejects

Spec == InitMain /\ [][Next]_vars

\* every prompt is eventually answered and every RPC promise eventually
\* settles: a continuation that can run eventually runs
SpecFair == Spec /\ WF_vars(Next)

(***************************************************************************)
(* Properties                                                              *)
(***************************************************************************)
Done == pc = "done"

NetworkCalls == estCalls + txCalls

FailurePrinted == {"Failed", "ErrorText", "Hints"} \subseteq printed

Present(x) == x.t \notin {"undefined", "null"} /\ x # JStr(<<>>)

SixPresentAndTyped(a) ==
  /\ At(a, 0).t = "str"
  /\ At(a, 1).t = "arr"
  /\ At(a, 2).t \in {"obj", "arr"}
  /\ Present(At(a, 3)) /\ Present(At(a, 4)) /\ Present(At(a, 5))

\* the run parsed its args line without error; args then holds the parsed list
ParsedList == argsLine # <<>> /\ parseArgsData(version, Trim(argsLine)).ok

\* C1: a run makes a network call (gas estimate or submission) only if the
\* parsed argument list has args[0] a string, args[1] an array, args[2] a
\* non-null object and args[3], args[4], args[5] present; a run whose parsed
\* list lacks any of them ends in the failure outcome with no network call.
C1_NetworkOnlyWithSixArguments ==
  /\ NetworkCalls > 0 => SixPresentAndTyped(args)
  /\ Done /\ ParsedList /\ ~SixPresentAndTyped(parseArgsData(version, Trim(argsLine)).val)
       => outcome = "failure" /\ NetworkCalls = 0

Openers == {"(", "{", "["}

Closer(c) == CASE c = "(" -> ")" [] c = "{" -> "}" [] c = "[" -> "]" [] OTHER -> ""

Quotes == {"'", "\""}

Structural == Openers \cup {")", "}", "]", "\\"} \cup Quotes

\* position i lies between an opener and its closer with nothing structural
\* between them and no quote before them
InFlatGroup(s, i) ==
  \E p \in 1..(i - 1), q \in (i + 1)..Len(s) :
    /\ s[p] \in Openers /\ s[q] = Closer(s[p])
    /\ \A k \in (p + 1)..(q - 1) : s[k] \notin Structural
    /\ \A k \in 1..(p - 1) : s[k] \notin Quotes

\* position i lies between a quote and the next same quote, the first quote
\* of the text
InFlatString(s, i) ==
  \E p \in 1..(i - 1), q \in (i + 1)..Len(s) :
    /\ s[p] \in Quotes /\ s[q] = s[p]
    /\ \A k \in (p + 1)..(q - 1) : s[k] \notin Structural
    /\ \A k \in 1..(p - 1) : s[k] \notin Quotes

\* C2: for a parenthesized tuple, the text between the outer parentheses is
\* split only at commas outside every string literal and every nested (), {}
\* and [] group: no comma inside a nested group or a quoted string separates
\* two elements.
C2_SplitsOnlyAtTopLevelCommas ==
  pc = "parsed" /\ parsed.ok /\ Delimited(CleanInput(version, prefix \o text), "(", ")") =>
    LET inner == TupleInner(version, CleanInput(version, prefix \o text))
    IN  \A i \in SplitParts(version, inner).cuts :
          ~InFlatGroup(inner, i) /\ ~InFlatString(inner, i)

FirstChar(s) == IF s = <<>> THEN "" ELSE s[1]

LastChar(s) == IF s = <<>> THEN "" ELSE s[Len(s)]

JsonArrayLiteral(s) == FirstChar(s) = "[" /\ LastChar(s) = "]" /\ JSONParse(s).ok

ParenthesizedTuple(s) == FirstChar(s) = "(" /\ LastChar(s) = ")"

\* C3: for every text X that is a JSON array literal or a parenthesized
\* tuple, parseArgsData("args: " + X) returns the same argument array as
\* parseArgsData(X).
C3_ArgsPrefixRemoved ==
  /\ pc = "parsed"
  /\ prefix = Append(ArgsColon, " ")
  /\ JsonArrayLiteral(text) \/ ParenthesizedTuple(text)
  => parsed = parseArgsData(version, text)

ErrorThrownBesidesEstimate ==
  \/ Trim(keyLine) # <<>> /\ ~Wallet(Trim(keyLine)).ok
  \/ pc # "askArgs" /\ wallet # <<>> /\ ~(version = "cjs" /\ Trim(argsLine) = <<>>)
       /\ ~parseArgsData(version, Trim(argsLine)).ok
  \/ ParsedList /\ pc # "askArgs"
       /\ ~extractDataFromArgs(version, parseArgsData(version, Trim(argsLine)).val).ok
  \/ extracted.ok /\ extracted.attester.t # "str"
  \/ "ErrorCalling" \in printed

GasEstimationErrorThrown == "GasEstimationFailed" \in printed

\* C5 as stated: main never rejects, and every error of wallet construction,
\* parsing, extraction, the mismatch prompt, gas estimation, submission or
\* confirmation reaches main's catch, which prints the failure message and
\* the hints before main resolves.
C5_EveryErrorReachesMainCatch ==
  /\ outcome # "rejected"
  /\ Done /\ (ErrorThrownBesidesEstimate \/ GasEstimationErrorThrown)
       => outcome = "failure" /\ FailurePrinted

\* C5 amended: main never rejects; every error of wallet construction,
\* parsing, extraction, the mismatch comparison, submission or confirmation
\* reaches main's catch, which prints the failure message and the hints
\* before main resolves.  A gas-estimation error is first caught inside
\* callAddValidator and reaches main's catch only if the fallback fails.
C5_ErrorsBesidesEstimateReachMainCatch ==
  /\ outcome # "rejected"
  /\ Done /\ ErrorThrownBesidesEstimate => outcome = "failure" /\ FailurePrinted
  /\ Done /\ outcome = "failure" => ErrorThrownBesidesEstimate

C5_Witness == Done /\ outcome = "failure" /\ txCalls = 1 /\ "TxHash" \in printed

\* C6: SUCCESS is printed only in a run whose addValidator transaction was
\* submitted and whose confirmation wait resolved; when submission or
\* confirmation failed, SUCCESS is not printed and the failure message with
\* the hints is; no run prints both.
C6_SuccessOnlyAfterConfirmation ==
  /\ "Success" \in printed =>
       txCalls = 1 /\ {"TxHash", "Confirmed"} \subseteq printed /\ outcome = "success"
  /\ Done /\ txCalls = 1 /\ "Confirmed" \notin printed =>
       "Success" \notin printed /\ FailurePrinted
  /\ ~("Success" \in printed /\ "Failed" \in printed)

C6_Witness == Done /\ "Success" \in printed

SameLetter(a, b) ==
  \/ a = b
  \/ {a, b} \in {{"a", "A"}, {"b", "B"}, {"x", "X"}, {"y", "Y"}, {"n", "N"}}

EqualIgnoringCase(s, u) ==
  Len(s) = Len(u) /\ \A i \in 1..Len(s) : SameLetter(s[i], u[i])

\* the wallet address and the extracted attester address were compared
Compared == extracted.ok /\ extracted.attester.t = "str"

\* the answer main received from the mismatch prompt
Answer == Trim(answerLine)

\* C7: when the wallet address differs, ignoring case, from the attester
\* address, a network call is made only if the answer to the confirmation
\* prompt (as main receives it) is 'y' or 'Y'; any other answer, the empty
\* one included, ends the run as cancelled with no network call; when the
\* addresses are equal ignoring case no prompt is shown.
C7_MismatchNeedsConfirmation ==
  /\ Compared /\ ~EqualIgnoringCase(wallet, extracted.attester.v) =>
       /\ prompts = 1
       /\ NetworkCalls > 0 => Answer \in {<<"y">>, <<"Y">>}
       /\ pc # "askProceed" /\ Answer \notin {<<"y">>, <<"Y">>} =>
            Done /\ outcome = "cancelled" /\ NetworkCalls = 0
  /\ Compared /\ EqualIgnoringCase(wallet, extracted.attester.v) => prompts = 0
  /\ ~Compared => prompts = 0

C7_Witness ==
  /\ prompts = 1 /\ txCalls = 1 /\ answerLine = <<"Y">>
  /\ ~EqualIgnoringCase(wallet, extracted.attester.v)

\* the input with the args prefix of the version and outer blanks removed
CleanReference(ver, input) ==
  LET t == Trim(input)
  IN  IF StartsWith(t, ArgsColon) THEN Trim(SubSeq(t, Len(ArgsColon) + 1, Len(t)))
      ELSE IF ver = "esm" /\ StartsWith(t, ArgsSpaceColon)
        THEN Trim(SubSeq(t, Len(ArgsSpaceColon) + 1, Len(t)))
      ELSE t

BracketDelimited(s) == FirstChar(s) = "[" /\ LastChar(s) = "]"

\* C8 as stated: parseArgsData returns a value only for input that, after
\* prefix removal and trimming, is bracket-delimited valid JSON or is
\* parenthesis-delimited; input with neither delimiter pair throws the
\* invalid-input-format error; bracket-delimited input that is not valid
\* JSON throws and is never tuple-parsed.
C8_ReturnsOnlyForArrayOrTuple ==
  pc = "parsed" =>
    LET clean == CleanReference(version, prefix \o text)
    IN  /\ parsed.ok =>
             (BracketDelimited(clean) /\ JSONParse(clean).ok) \/ ParenthesizedTuple(clean)
        /\ ~BracketDelimited(clean) /\ ~ParenthesizedTuple(clean) =>
             ~parsed.ok /\ parsed.err = "InvalidFormat"
        /\ BracketDelimited(clean) /\ ~JSONParse(clean).ok => ~parsed.ok

\* C8 amended: as stated, except that in the esm version the empty input
\* throws the no-input-data error instead of the invalid-input-format error.
C8_ReturnsOnlyForArrayOrTupleEmptyApart ==
  pc = "parsed" =>
    LET clean == CleanReference(version, prefix \o text)
    IN  /\ parsed.ok =>
             (BracketDelimited(clean) /\ JSONParse(clean).ok) \/ ParenthesizedTuple(clean)
        /\ ~BracketDelimited(clean) /\ ~ParenthesizedTuple(clean) =>
             /\ ~parsed.ok
             /\ parsed.err = IF version = "esm" /\ prefix \o text = <<>>
                               THEN "NoInput" ELSE "InvalidFormat"
        /\ BracketDelimited(clean) /\ ~JSONParse(clean).ok => ~parsed.ok

C8_Witness ==
  /\ pc = "parsed" /\ version = "esm" /\ prefix = <<>>
  /\ text = <<"[", ",", "]">> /\ parsed.err = "InvalidFormat"

\* C9: whenever the gas-estimate call rejects or throws, callAddValidator
\* falls back to an estimate of 2,000,000 and still submits the transaction.
C9_EstimateFailureFallsBackAndSubmits ==
  GasEstimationErrorThrown =>
    usedFallback /\ gasEstimate = 2000000 /\ txCalls = 1

\* C10: the gasLimit sent is floor(estimate * 120 / 100), so it is at least
\* the estimate, and it is 2,400,000 when the fallback estimate is used.
C10_GasLimitIsEstimatePlusFifth ==
  txCalls = 1 =>
    /\ gasLimit * 100 <= gasEstimate * 120
    /\ gasEstimate * 120 < (gasLimit + 1) * 100
    /\ gasLimit >= gasEstimate
    /\ usedFallback => gasLimit = 2400000

C10_Witness == txCalls = 1 /\ ~usedFallback /\ gasEstimate = 4 /\ gasLimit = 4


\* the argument lists extractDataFromArgs of the esm version accepts, as the
\* documentation lists them
AddressString(x) == x.t = "str" /\ isAddress(x.v)

ArrayOrFalsy(x) == x.t = "arr" \/ ~Truthy(x)

NonNullObject(x) == x.t \in {"obj", "arr"}

DecodesToObject(x) ==
  x.t = "str" /\ JSONParse(x.v).ok /\ NonNullObject(JSONParse(x.v).val)

Accepted(a) ==
  /\ Len(a) >= 6
  /\ AddressString(At(a, 0))
  /\ ArrayOrFalsy(At(a, 1))
  /\ NonNullObject(At(a, 2)) \/ DecodesToObject(At(a, 2))
  /\ Truthy(At(a, 3)) /\ Truthy(At(a, 4)) /\ Truthy(At(a, 5))

\* C11: in the esm version extractDataFromArgs returns a result exactly when
\* args has at least six elements, args[0] is a string holding a valid address,
\* args[1] is an array or falsy, args[2] is a non-null object or a string that
\* JSON-decodes to one, and args[3], args[4], args[5] are truthy; on every
\* other argument list it throws.
C11_EsmExtractAcceptsExactly ==
  (version = "esm" /\ pc = "extracted") => (extracted.ok <=> Accepted(args))

\* an accepted list of seven values whose args[1] is falsy and whose args[2]
\* is an encoded object
C11_Witness ==
  /\ version = "esm" /\ pc = "extracted" /\ extracted.ok
  /\ Len(args) = 7 /\ At(args, 1) = JNull /\ At(args, 2).t = "str"


\* the six contract arguments as the documentation derives them from args
ExpectedProof(a) == IF Truthy(At(a, 1)) THEN At(a, 1) ELSE JArr(<<>>)

ExpectedZk(a) == IF At(a, 2).t = "str" THEN JSONParse(At(a, 2).v).val ELSE At(a, 2)

ExpectedSix(a) ==
  <<At(a, 0), ExpectedProof(a), ExpectedZk(a), At(a, 3), At(a, 4), At(a, 5)>>

ReturnedSix ==
  <<extracted.attester, extracted.merkleProof, extracted.zkPassportData,
    extracted.publicKeyG1, extracted.publicKeyG2, extracted.signature>>

\* C12: what extractDataFromArgs returns is args[0], args[1] (or [] when it is
\* falsy), args[2] (JSON-decoded only when it is a string), args[3], args[4],
\* args[5]; args is still the list parseArgsData returned; and both the gas
\* estimate and the submission receive exactly these six values in this order.
C12_SixValuesPassedUnmodifiedInOrder ==
  /\ extracted.ok =>
       /\ ReturnedSix = ExpectedSix(args)
       /\ args = parseArgsData(version, Trim(argsLine)).val
  /\ estCalls > 0 => estArgs = ExpectedSix(args)
  /\ txCalls > 0 => txArgs = ExpectedSix(args)

\* a submission made with three different BLS values
C12_Witness ==
  /\ txCalls = 1 /\ estCalls = 1
  /\ txArgs[4] = JNum(<<"1">>) /\ txArgs[5] = JNum(<<"2">>) /\ txArgs[6] = JNum(<<"3">>)


\* the call took the tuple path and returned
TuplePath ==
  pc = "parsed" /\ parsed.ok /\ Delimited(CleanInput(version, prefix \o text), "(", ")")

\* the elements the tokenizer cut the tuple into
Elements ==
  SplitParts(version, TupleInner(version, CleanInput(version, prefix \o text))).parts

\* an element coerced as the documentation says
CoercedAsDocumented(el) ==
  LET t == Trim(el)
      grouped == \/ FirstChar(t) = "{" /\ LastChar(t) = "}"
                 \/ FirstChar(t) = "[" /\ LastChar(t) = "]"
  IN  IF grouped /\ JSONParse(t).ok THEN JSONParse(t).val ELSE JStr(t)

\* C13: in the tuple path every element delimited by {} or [] becomes its
\* JSON-decoded value when it is valid JSON and its raw text otherwise, and
\* every other element is returned as its trimmed text, as a string.
C13_ElementsCoercedByRule ==
  TuplePath =>
    /\ Len(parsed.val) = Len(Elements)
    /\ \A n \in 1..Len(Elements) : parsed.val[n] = CoercedAsDocumented(Elements[n])


\* an element that stands for an empty segment: the empty string or null
BlankElement(x) == x = JStr(<<>>) \/ x = JNull

\* C15: in the tuple path empty parts are skipped: the returned array has no
\* element for a blank segment, whether between two adjacent commas or after
\* a trailing comma, and so has exactly one element per non-blank segment.
C15_EmptyPartsSkipped ==
  TuplePath =>
    /\ \A n \in 1..Len(parsed.val) : ~BlankElement(parsed.val[n])
    /\ Len(parsed.val) = Cardinality({n \in 1..Len(Elements) : Trim(Elements[n]) # <<>>})


\* the string literal open after the first k characters of s, read as string
\* literals are written: a backslash inside a literal escapes the character
\* after it, and an unescaped quote of the opening kind closes the literal.
\* q is the opening quote ("" outside a literal), esc says that the next
\* character is escaped.
RECURSIVE LiteralAt(_, _)
LiteralAt(s, k) ==
  IF k = 0 THEN [q |-> "", esc |-> FALSE]
  ELSE Once(LiteralAt(s, k - 1), LAMBDA p :
         IF p.q = "" THEN (IF s[k] \in Quotes THEN [q |-> s[k], esc |-> FALSE] ELSE p)
         ELSE IF p.esc THEN [q |-> p.q, esc |-> FALSE]
         ELSE IF s[k] = "\\" THEN [q |-> p.q, esc |-> TRUE]
         ELSE IF s[k] = p.q THEN [q |-> "", esc |-> FALSE]
         ELSE p)

\* the tokenizer state after the first k characters of s
ScanUpTo(ver, s, k) == Scan(ver, SubSeq(s, 1, k), 1, ScanInit)

Depths(st) == <<st.depth, st.braceDepth, st.bracketDepth>>

\* C14: in the esm tokenizer a string literal opened by ' or " is closed by
\* the next unescaped occurrence of the same quote; an escaped quote and the
\* other quote character stay inside the string; and a character read inside
\* a string changes no nesting depth and splits no element.
C14_StringsCloseAtUnescapedQuote ==
  (version = "esm" /\ TuplePath) =>
    LET inner == TupleInner(version, CleanInput(version, prefix \o text))
    IN  \A k \in 1..Len(inner) :
          LET before == ScanUpTo(version, inner, k - 1)
              after == ScanUpTo(version, inner, k)
          IN  /\ after.inString <=> LiteralAt(inner, k).q # ""
              /\ after.stringChar = LiteralAt(inner, k).q
              /\ before.inString =>
                    Depths(after) = Depths(before) /\ after.cuts = before.cuts


\* the message main prints last in each of its outcomes
FinalMessages == {"NoKey", "NoArgs", "Cancelled", "Success", "Failed"}

FinalMessageOf(out) ==
  CASE out = "noKey" -> "NoKey"
    [] out = "noArgs" -> "NoArgs"
    [] out = "cancelled" -> "Cancelled"
    [] out = "success" -> "Success"
    [] out = "failure" -> "Failed"
    [] OTHER -> "none"

FinishedInOneOutcome ==
  /\ outcome \in {"noKey", "noArgs", "cancelled", "success", "failure"}
  /\ outcome = "noArgs" => version = "cjs"
  /\ printed \cap FinalMessages = {FinalMessageOf(outcome)}
  /\ outcome = "failure" => "Hints" \in printed

\* C16: with every prompt eventually answered and every RPC call eventually
\* settled, every run of main eventually finishes, and a finished run has
\* exactly one outcome: exit for a missing private key, exit for missing args
\* (cjs only), cancelled at the mismatch prompt, success, or failure with the
\* troubleshooting hints.
C16_MainFinishesInOneOutcome ==
  /\ <>Done
  /\ [](Done => FinishedInOneOutcome)

\* a run cancelled at the mismatch prompt, finished
C16_Witness == Done /\ outcome = "cancelled" /\ prompts = 1 /\ NetworkCalls = 0

====
